---- MODULE Spec2Model ----
(***************************************************************************)
(* Model of the Zonaprop alert bot (src/main.py): link extraction from a   *)
(* results page, age inference on a detail page, the soft date filter,     *)
(* the seen-URL cache and the run_once pipeline.                           *)
(*                                                                         *)
(* Text is modelled as a sequence of atoms.  An href is a sequence of      *)
(* URL atoms ("https:", "/", "host", "propiedades-a.html", "?q=1", ...);   *)
(* a label is a sequence of phrase atoms (an ISO timestamp, "hace N min",  *)
(* "hace N horas", "Publicado hoy", other text).  Ages are kept in         *)
(* minutes, so that N/60.0 hours is the integer N and a threshold of m     *)
(* hours is 60*m.                                                          *)
(***************************************************************************)
EXTENDS Integers, Sequences, FiniteSets, TLC

VARIABLES
    \* ---- extract_cards_from_search (one call)
    page_url,      \* page.url of the results page
    anchors,       \* the a[href] elements of the page, in document order
    top_n,         \* the top_n argument
    cards,         \* the returned list (or the cards of the current search)
    \* ---- enrich_detail_try / pasa_filtro_fecha (one call)
    dom,           \* detail page: the contents matched by sel_candidates
    item,          \* the enriched record
    thresholds,    \* <<m1, m2>>: two values of max_age_hours
    admit,         \* <<pasa_filtro_fecha(item, m1), pasa_filtro_fecha(item, m2)>>
    \* ---- run_once / main
    CFG,           \* the loaded configuration
    creds,         \* BOT_TOKEN and CHAT_ID are both set
    cache_file,    \* seen_urls.json on disk
    seen,          \* the in-memory seen set of the current run
    pc,            \* position of the process
    si,            \* index of the current search in CFG.searches
    msg,           \* the message composed for the current search
    hist           \* observations: messages handed to send_telegram, visits, ...

extractVars == <<page_url, anchors, top_n, cards>>
fechaVars   == <<dom, item, thresholds, admit>>
runVars     == <<CFG, creds, cache_file, seen, pc, si, msg, hist>>
vars        == <<page_url, anchors, top_n, cards, dom, item, thresholds, admit,
                 CFG, creds, cache_file, seen, pc, si, msg, hist>>

Max(a, b) == IF a >= b THEN a ELSE b

(***************************************************************************)
(* Bounds of the model.                                                    *)
(***************************************************************************)
MaxAnchors  == 3    \* anchors on a results page in SpecExtract
MaxTopN     == 2    \* largest top_n / top_n_per_search tried
MaxDom      == 2    \* elements matched on a detail page in SpecFecha
MaxSearches == 2    \* configured searches
MaxRuns     == 2    \* successive runs of the process

(***************************************************************************)
(* URL text.                                                               *)
(***************************************************************************)
\* str.startswith on atoms
StartsWith(s, p) == Len(s) >= Len(p) /\ SubSeq(s, 1, Len(p)) = p

\* positions of the separator "/" in s, and the n-th of them
SepPos(s) == {i \in 1..Len(s) : s[i] = "/"}
NthSep(s, n) == CHOOSE i \in SepPos(s) : Cardinality({j \in SepPos(s) : j < i}) = n - 1

\* s.split("/", 3)[k] for k in 0..2
SplitSlash(s, k) ==
    LET from == IF k = 0 THEN 1 ELSE NthSep(s, k) + 1
        to   == IF Cardinality(SepPos(s)) > k THEN NthSep(s, k + 1) - 1 ELSE Len(s)
    IN SubSeq(s, from, to)

\* atoms whose text contains one of "#", "javascript:", "whatsapp.com",
\* "facebook.com", "twitter.com"
BlockedAtoms == {"#f", "javascript:", "whatsapp.com", "facebook.com", "twitter.com"}

\* atoms whose text starts with "propiedad", contains "inmueble", is a digit string
PropiedadAtoms == {"propiedades-a.html", "propiedades-b.html"}
InmuebleAtoms  == {"inmueble-c.html"}
DigitAtoms     == {"7"}

\* any(x in href for x in ["#", "javascript:", ...])
HasBlocked(href) == \E i \in 1..Len(href) : href[i] \in BlockedAtoms

\* re.search(r"/propiedad|/propiedades|inmueble|/p/\d", href, re.IGNORECASE)
LooksLikeFicha(href) ==
    \/ \E i \in 1..(Len(href) - 1) : href[i] = "/" /\ href[i + 1] \in PropiedadAtoms
    \/ \E i \in 1..Len(href) : href[i] \in InmuebleAtoms
    \/ \E i \in 1..(Len(href) - 3) :
          href[i] = "/" /\ href[i + 1] = "p" /\ href[i + 2] = "/" /\ href[i + 3] \in DigitAtoms

\* mutant of NormalizeHref: a protocol-relative href is given the scheme http:
NormalizeHrefHttp(href, purl) ==
    IF StartsWith(href, <<"/", "/">>) THEN <<"http:">> \o href
    ELSE IF StartsWith(href, <<"/">>)
         THEN SplitSlash(purl, 0) \o <<"/", "/">> \o SplitSlash(purl, 2) \o href
         ELSE href

\* lines 165-170: the normalisation of one href against the page url
NormalizeHref(href, purl) ==
    IF StartsWith(href, <<"/", "/">>) THEN <<"https:">> \o href
    ELSE IF StartsWith(href, <<"/">>)
         THEN SplitSlash(purl, 0) \o <<"/", "/">> \o SplitSlash(purl, 2) \o href
         ELSE href

\* The canonical listing URL of a URL: everything before the query or fragment
QueryAtoms == {"?q=1", "?q=2"}
Canonical(url) ==
    LET cut == {i \in 1..Len(url) : url[i] \in QueryAtoms \/ url[i] \in BlockedAtoms}
    IN IF cut = {} THEN url
       ELSE SubSeq(url, 1, (CHOOSE i \in cut : \A j \in cut : i <= j) - 1)

(***************************************************************************)
(* extract_cards_from_search: the loop over the anchors, from anchor i on. *)
(***************************************************************************)
\* the test that ends the loop
LimitReached(n, limit) == n >= limit

RECURSIVE ExtractLoop(_, _, _, _, _, _)
ExtractLoop(purl, as, i, acc, seen_urls, limit) ==
    IF i > Len(as) THEN acc
    ELSE
      LET raw  == as[i].href
          href == NormalizeHref(raw, purl)
      IN IF raw = <<>> THEN ExtractLoop(purl, as, i + 1, acc, seen_urls, limit)
         ELSE IF HasBlocked(href) THEN ExtractLoop(purl, as, i + 1, acc, seen_urls, limit)
         ELSE IF ~LooksLikeFicha(href) THEN ExtractLoop(purl, as, i + 1, acc, seen_urls, limit)
         ELSE
           LET fresh == href \notin seen_urls
               acc2  == IF fresh
                        THEN Append(acc, [url |-> href, titulo |-> as[i].text,
                                          card_text |-> as[i].text])
                        ELSE acc
               su2   == IF fresh THEN seen_urls \cup {href} ELSE seen_urls
           IN IF LimitReached(Len(acc2), limit) THEN acc2
              ELSE ExtractLoop(purl, as, i + 1, acc2, su2, limit)

extract_cards_from_search(purl, as, limit) == ExtractLoop(purl, as, 1, <<>>, {}, limit)

(***************************************************************************)
(* Label text.  A label is a sequence of phrase atoms; the empty sequence  *)
(* stands for both None and "" (the code only ever reads `x or ""`).       *)
(***************************************************************************)
Iso(t, tz)  == [k |-> "iso",  v |-> t, tz |-> tz]   \* "2024-05-01T10:00:00" + tz, t in minutes
HaceMin(n)  == [k |-> "min",  v |-> n, tz |-> ""]   \* "hace n min"
HaceHora(n) == [k |-> "hora", v |-> n, tz |-> ""]   \* "hace n horas"
Hoy         == [k |-> "hoy",  v |-> 0, tz |-> ""]   \* "Publicado hoy"
Txt         == [k |-> "txt",  v |-> 0, tz |-> ""]   \* text without any date phrase

\* an optional number: None, or a number of minutes
NoAge      == [some |-> FALSE, v |-> 0]
Age(n)     == [some |-> TRUE, v |-> n]
IsNumber(a) == a.some

\* the first atom of kind k in a label (re.search finds the leftmost match)
HasKind(label, k)   == \E i \in 1..Len(label) : label[i].k = k
FirstKind(label, k) ==
    label[CHOOSE i \in 1..Len(label) :
            label[i].k = k /\ \A j \in 1..(i - 1) : label[j].k # k]

\* any(x in t for x in ["hoy", "min", "minutos", "hora", "horas"])
IsHoyOHoras(texto) == \E i \in 1..Len(texto) : texto[i].k \in {"hoy", "min", "hora"}

\* _parse_hours_from_label: minutes first, then hours; the result in minutes
ParseHoursFromLabel(label) ==
    IF label = <<>> THEN NoAge
    ELSE IF HasKind(label, "min") THEN Age(Max(0, FirstKind(label, "min").v))
    ELSE IF HasKind(label, "hora") THEN Age(60 * FirstKind(label, "hora").v)
    ELSE NoAge

\* mutant of WithinMaxAge: the comparison is the wrong way round
WithinMaxAgeFlipped(age, max_age_hours) == age >= 60 * max_age_hours

\* the comparison of an age (minutes) with max_age_hours (hours)
WithinMaxAge(age, max_age_hours) == age <= 60 * max_age_hours

\* mutant of pasa_filtro_fecha: an item without any date signal is rejected
pasa_filtro_fechaStrict(it, max_age_hours) ==
    LET label  == it.age_label \o it.card_text
        approx == ParseHoursFromLabel(label)
    IN IF IsNumber(it.age_hours) THEN WithinMaxAge(it.age_hours.v, max_age_hours)
       ELSE IF IsNumber(approx) THEN WithinMaxAge(approx.v, max_age_hours)
       ELSE IF IsHoyOHoras(label) THEN TRUE
       ELSE FALSE

\* pasa_filtro_fecha(item, max_age_hours)
pasa_filtro_fecha(it, max_age_hours) ==
    LET label  == it.age_label \o it.card_text      \* snippet is never set
        approx == ParseHoursFromLabel(label)
    IN IF IsNumber(it.age_hours) THEN WithinMaxAge(it.age_hours.v, max_age_hours)
       ELSE IF IsNumber(approx) THEN WithinMaxAge(approx.v, max_age_hours)
       ELSE IF IsHoyOHoras(label) THEN TRUE
       ELSE TRUE

(***************************************************************************)
(* enrich_detail_try.  A detail page is [ok, h1, els]: whether goto and    *)
(* the DOM queries succeed, the h1 text, and the contents of the elements  *)
(* matched by sel_candidates, in order.                                    *)
(***************************************************************************)
\* datetime.now(timezone.utc): an aware datetime
now == [t |-> 6000, aware |-> TRUE]

\* group(1) of r"(\d{4}-\d{2}-\d{2}T\d{2}:\d{2}[:\d{0,2}]*)": the character
\* class admits ':', digits, '{', ',', '}' only, so the match ends before any
\* "Z" or "+00:00"
IsoCapture(atom) == [t |-> atom.v, tz |-> ""]

\* datetime.fromisoformat(iso.replace("Z", "+00:00")): aware iff iso carries an offset
FromIsoFormat(iso) == [t |-> iso.t, aware |-> iso.tz # ""]

\* a - b on datetimes: TypeError when one is naive and the other aware
DtSub(a, b) == IF a.aware = b.aware THEN [err |-> FALSE, v |-> a.t - b.t]
               ELSE [err |-> TRUE, v |-> 0]

\* " | ".join(dict.fromkeys(label_texts)): first occurrences, in order, joined
RECURSIVE JoinDistinct(_, _)
JoinDistinct(texts, i) ==
    IF i > Len(texts) THEN <<>>
    ELSE IF texts[i] = <<>> \/ \E j \in 1..(i - 1) : texts[j] = texts[i]
         THEN JoinDistinct(texts, i + 1)
         ELSE texts[i] \o JoinDistinct(texts, i + 1)

\* lines 235-252: age_hours from the label text
AgeFromLabelText(label_text) ==
    IF HasKind(label_text, "iso")
    THEN LET dt == FromIsoFormat(IsoCapture(FirstKind(label_text, "iso")))
             d  == DtSub(now, dt)
         IN IF d.err THEN NoAge              \* except Exception: pass
            ELSE Age(Max(0, d.v))
    ELSE ParseHoursFromLabel(label_text)

\* a page with ok = FALSE is one where goto or a DOM call raises: the except at
\* line 254 returns out with age_hours and age_label still None, and with the
\* title when the h1 was read before the error (h1 is empty when goto failed)
enrich_detail_try(url, page) ==
    IF ~page.ok
    THEN [url |-> url, age_hours |-> NoAge, age_label |-> <<>>, titulo |-> page.h1]
    ELSE LET label_text == JoinDistinct(page.els, 1)
         IN [url |-> url, age_hours |-> AgeFromLabelText(label_text),
             age_label |-> label_text, titulo |-> page.h1]

\* run_once lines 301-306: enrich a card and merge the card's fields
EnrichCard(c, page) ==
    LET d == enrich_detail_try(c.url, page)
    IN [url |-> d.url, age_hours |-> d.age_hours, age_label |-> d.age_label,
        titulo |-> IF d.titulo = <<>> THEN c.titulo ELSE d.titulo,
        card_text |-> c.card_text]

(***************************************************************************)
(* Values the variables of one group hold while another group is checked.  *)
(***************************************************************************)
BlankItem == [url |-> <<>>, age_hours |-> NoAge, age_label |-> <<>>,
              titulo |-> <<>>, card_text |-> <<>>]

ExtractIdle == page_url = <<>> /\ anchors = <<>> /\ top_n = 0 /\ cards = <<>>
FechaIdle   == /\ dom = [ok |-> FALSE, h1 |-> <<>>, els |-> <<>>]
               /\ item = BlankItem
               /\ thresholds = <<0, 0>>
               /\ admit = <<FALSE, FALSE>>
RunIdle     == /\ CFG = [searches |-> <<>>, top_n_per_search |-> 0, max_age_hours |-> 0]
               /\ creds = FALSE
               /\ cache_file = [kind |-> "missing", urls |-> {}]
               /\ seen = {}
               /\ si = 0
               /\ msg = <<>>
               /\ hist = <<>>

\* all sequences over S of length at most n
SeqsUpTo(S, n) == UNION {[1..k -> S] : k \in 0..n}

(***************************************************************************)
(* SpecExtract: one call of extract_cards_from_search on a page drawn from *)
(* a pool of anchors.                                                      *)
(***************************************************************************)
HostHttps == <<"https:", "/", "/", "host">>
PathA == <<"/", "propiedades-a.html">>
PathB == <<"/", "propiedades-b.html">>
ListingPaths == {PathA, PathB}

\* the three spellings of a path on the host
ThreeForms(p) == {<<"/", "/", "host">> \o p, p, HostHttps \o p}

HrefPool ==
    ThreeForms(PathA) \cup
    { PathA \o <<"?q=1">>, PathA \o <<"?q=2">>, PathB,
      PathA \o <<"#f">>,
      <<"/", "contacto">>,
      <<>>,
      <<"https:", "/", "/", "facebook.com", "/", "propiedades-a.html">>,
      <<"/", "p", "/", "7">> }

PageUrlPool == { HostHttps \o <<"/", "venta">>,
                 <<"http:", "/", "/", "host", "/", "venta">> }

AnchorPool == {[href |-> h, text |-> <<Txt>>] : h \in HrefPool}

InitExtract ==
    /\ page_url \in PageUrlPool
    /\ anchors \in SeqsUpTo(AnchorPool, MaxAnchors)
    /\ top_n \in 0..MaxTopN
    /\ cards = <<>>
    /\ pc = "x_call"
    /\ FechaIdle /\ RunIdle

ExtractCall ==
    /\ pc = "x_call"
    /\ cards' = extract_cards_from_search(page_url, anchors, top_n)
    /\ pc' = "x_ret"
    /\ UNCHANGED <<page_url, anchors, top_n, fechaVars,
                   CFG, creds, cache_file, seen, si, msg, hist>>

NextExtract == ExtractCall

SpecExtract == InitExtract /\ [][NextExtract]_vars

\* C7: the returned list holds each canonical listing URL (query and fragment
\* stripped) at most once, also for hrefs that differ only in the query string.
C7_CanonicalUnique ==
    pc = "x_ret" =>
      \A i, j \in 1..Len(cards) :
         i # j => Canonical(cards[i].url) # Canonical(cards[j].url)

\* C8: the call returns at most top_n cards, for every top_n, 0 included.
C8_AtMostTopN == pc = "x_ret" => Len(cards) <= top_n

\* C9: on a page of origin https://host the hrefs //host/p, /p and
\* https://host/p normalise to the same absolute URL https://host/p, and a page
\* whose anchors are only these three spellings of one p yields at most one card.
C9_ThreeFormsOneUrl ==
    (pc = "x_ret" /\ StartsWith(page_url, HostHttps \o <<"/">>)) =>
      \A p \in ListingPaths :
         /\ \A h \in ThreeForms(p) : NormalizeHref(h, page_url) = HostHttps \o p
         /\ (\A i \in 1..Len(anchors) : anchors[i].href \in ThreeForms(p))
               => Len(cards) <= 1

\* C9 witness: all three spellings of one path are on the page, the limit does
\* not cut the loop short, and exactly one card comes back.
C9_Witness ==
    /\ pc = "x_ret"
    /\ StartsWith(page_url, HostHttps \o <<"/">>)
    /\ top_n >= 2
    /\ {anchors[i].href : i \in 1..Len(anchors)} = ThreeForms(PathA)
    /\ Len(cards) = 1
    /\ cards[1].url = HostHttps \o PathA

(***************************************************************************)
(* SpecFecha: one call of enrich_detail_try followed by pasa_filtro_fecha, *)
(* or pasa_filtro_fecha on an arbitrary item, under two thresholds.        *)
(***************************************************************************)
IsoOld    == Iso(0, "Z")        \* 100 hours before now
IsoRecent == Iso(5880, "Z")     \* 2 hours before now
IsoFuture == Iso(6060, "+00:00")  \* 1 hour after now

LabelAtomPool == {IsoOld, IsoRecent, IsoFuture, HaceMin(45), HaceHora(2),
                  HaceHora(30), Hoy, Txt}
CardTextPool  == {<<>>, <<Txt>>, <<HaceHora(30)>>}
ThresholdPool == {0, 1, 24, 48}
AgePool       == {0, 45, 120, 1440, 1800}

DomPool ==
    {[ok |-> FALSE, h1 |-> <<>>, els |-> <<>>],
     [ok |-> FALSE, h1 |-> <<Txt>>, els |-> << <<HaceHora(2)>> >>]} \cup
    {[ok |-> TRUE, h1 |-> <<Txt>>, els |-> e] :
        e \in SeqsUpTo({<<a>> : a \in LabelAtomPool}, MaxDom)}

InitFecha ==
    /\ dom \in DomPool
    /\ item \in {[BlankItem EXCEPT !.card_text = c] : c \in CardTextPool}
    /\ thresholds \in ThresholdPool \X ThresholdPool
    /\ admit = <<FALSE, FALSE>>
    /\ pc = "f_start"
    /\ ExtractIdle /\ RunIdle

\* run_once lines 301-306 on the detail page dom
FechaEnrich ==
    /\ pc = "f_start"
    /\ item' = EnrichCard([url |-> HostHttps \o PathA, titulo |-> item.card_text,
                           card_text |-> item.card_text], dom)
    /\ pc' = "f_enriched"
    /\ UNCHANGED <<dom, thresholds, admit, extractVars,
                   CFG, creds, cache_file, seen, si, msg, hist>>

\* an item that did not come from enrich_detail_try: any age_hours, any label
\* (taken once, from the initial states whose page is the failed one)
FechaAnyItem ==
    /\ pc = "f_start"
    /\ dom = [ok |-> FALSE, h1 |-> <<>>, els |-> <<>>]
    /\ \E a \in {NoAge} \cup {Age(n) : n \in AgePool},
          l \in SeqsUpTo(LabelAtomPool, 1) :
          item' = [item EXCEPT !.age_hours = a, !.age_label = l]
    /\ pc' = "f_item"
    /\ UNCHANGED <<dom, thresholds, admit, extractVars,
                   CFG, creds, cache_file, seen, si, msg, hist>>

FechaFilter ==
    /\ pc \in {"f_enriched", "f_item"}
    /\ admit' = <<pasa_filtro_fecha(item, thresholds[1]),
                  pasa_filtro_fecha(item, thresholds[2])>>
    /\ pc' = IF pc = "f_enriched" THEN "f_done" ELSE "f_done_any"
    /\ UNCHANGED <<dom, item, thresholds, extractVars,
                   CFG, creds, cache_file, seen, si, msg, hist>>

NextFecha == FechaEnrich \/ FechaAnyItem \/ FechaFilter

SpecFecha == InitFecha /\ [][NextFecha]_vars

\* the label text enrich_detail_try collects from the page dom
DomLabel == JoinDistinct(dom.els, 1)

\* the page carries a machine-readable timestamp and a relative-time phrase
\* "hace N horas" that disagree about the age
Conflicting ==
    /\ dom.ok
    /\ HasKind(DomLabel, "iso")
    /\ HasKind(DomLabel, "hora")
    /\ ~HasKind(DomLabel, "min")
    /\ Max(0, now.t - FirstKind(DomLabel, "iso").v) # 60 * FirstKind(DomLabel, "hora").v

\* C5: with an ISO timestamp T and a conflicting "hace N horas" in the label
\* text, age_hours is the time elapsed since T clamped at 0, and the decision of
\* pasa_filtro_fecha is the one that age gives, never the one N gives.
C5_TimestampWins ==
    (pc = "f_done" /\ Conflicting) =>
       LET exact == Max(0, now.t - FirstKind(DomLabel, "iso").v)
       IN /\ item.age_hours = Age(exact)
          /\ admit[1] = WithinMaxAge(exact, thresholds[1])

\* C6: for every item and thresholds m1 <= m2, an item admitted under m1 is
\* admitted under m2.
C6_Monotone ==
    (pc \in {"f_done", "f_done_any"} /\ thresholds[1] <= thresholds[2] /\ admit[1])
       => admit[2]

\* C6 witness: a dated item admitted under the smaller of two different
\* thresholds; and the filter does reject under a threshold (it is not constant).
C6_Witness ==
    /\ pc = "f_done_any"
    /\ thresholds[1] < thresholds[2]
    /\ IsNumber(item.age_hours) /\ item.age_hours.v > 0
    /\ admit[1] /\ admit[2]
    /\ ~pasa_filtro_fecha(item, 0)

(***************************************************************************)
(* The cache file and the message text.                                    *)
(***************************************************************************)
\* load_seen: the URLs of a JSON list; the empty set when the file is missing,
\* is not valid JSON, or holds anything but a list
\* mutant of load_seen: whatever URL can be read in the file is taken as seen
load_seenAny(file) == file.urls

load_seen(file) == IF file.kind = "list" THEN file.urls ELSE {}

\* what save_seen writes when the write succeeds: the sorted list of seen
SavedFile(s) == [kind |-> "list", urls |-> s]

\* number of characters of an atom, of a text
LongTxt == [k |-> "long", v |-> 0, tz |-> ""]      \* a very long title
UrlAtomLen(a) == CASE a = "/" -> 1 [] a = "host" -> 4 [] a = "https:" -> 6
                   [] a \in QueryAtoms -> 4 [] OTHER -> 18
LabelAtomLen(a) == IF a.k = "long" THEN 3790 ELSE 20

RECURSIVE SumLen(_, _, _)
SumLen(text, i, isUrl) ==
    IF i > Len(text) THEN 0
    ELSE (IF isUrl THEN UrlAtomLen(text[i]) ELSE LabelAtomLen(text[i]))
         + SumLen(text, i + 1, isUrl)

MsgLimit  == 3800
HeaderLen == 33      \* "Busqueda — publicados recientes"

\* the line "- {t} {url}" of an admitted item: its url and its length
LineOf(it) ==
    LET t == IF it.titulo # <<>> THEN it.titulo ELSE it.card_text
    IN [url |-> it.url, len |-> 2 + SumLen(t, 1, FALSE) + 1 + SumLen(it.url, 1, TRUE)]

\* offset just past line i in "\n".join([titulo] + lines)
RECURSIVE EndOfLine(_, _)
EndOfLine(lines, i) ==
    IF i = 0 THEN HeaderLen ELSE EndOfLine(lines, i - 1) + 1 + lines[i].len

\* the message of a search: its lines, and the URLs that are whole in text[:3800]
ComposeMsg(filtrados) ==
    LET lines == [i \in 1..Len(filtrados) |-> LineOf(filtrados[i])]
    IN [lines |-> [i \in 1..Len(lines) |-> lines[i].url],
        whole |-> {lines[i].url : i \in {j \in 1..Len(lines) : EndOfLine(lines, j) <= MsgLimit}}]

\* mutant of MarkSeen: the URLs of a message are not marked
MarkSeenNone(s, filtrados) == s

\* the URLs run_once marks as seen for a message (line 323)
MarkSeen(s, filtrados) == s \cup {filtrados[i].url : i \in 1..Len(filtrados)}

\* the seen set after send_telegram returned ok for the message (line 326: the
\* result is not used)
AfterSend(s, m, ok) == s

\* mutant of Candidatos: the test on the seen set is the wrong way round
CandidatosSeen(cs, s) == LET Keep(c) == c.url \in s IN SelectSeq(cs, Keep)

\* mutant of Candidatos: the cards are not filtered by the seen set
CandidatosAll(cs, s) == cs

\* candidatos = [c for c in cards if c["url"] not in seen]
Candidatos(cs, s) == LET Keep(c) == c.url \notin s IN SelectSeq(cs, Keep)

(***************************************************************************)
(* The web, as the process sees it.  What a URL returns is fixed for the   *)
(* whole behaviour: a results page opens or times out, its DOM evaluates   *)
(* or raises, a detail page loads or fails.                                *)
(***************************************************************************)
UrlA  == HostHttps \o PathA
UrlB  == HostHttps \o PathB
UrlC  == HostHttps \o <<"/", "inmueble-c.html">>

SearchVenta    == HostHttps \o <<"/", "venta">>
SearchAlquiler == HostHttps \o <<"/", "alquiler">>
SearchCaida    == HostHttps \o <<"/", "caida">>     \* goto times out
SearchRota     == HostHttps \o <<"/", "rota">>      \* DOM evaluation raises

ResultsPage(url) ==
    CASE url = SearchVenta ->
           [opens |-> TRUE, raises |-> FALSE,
            anchors |-> <<[href |-> PathA, text |-> <<Txt>>],
                          [href |-> PathB, text |-> <<Txt>>]>>]
      [] url = SearchAlquiler ->
           [opens |-> TRUE, raises |-> FALSE,
            anchors |-> <<[href |-> <<"/", "inmueble-c.html">>, text |-> <<Txt>>],
                          [href |-> UrlA, text |-> <<Txt>>]>>]
      [] url = SearchRota -> [opens |-> TRUE, raises |-> TRUE, anchors |-> <<>>]
      [] OTHER -> [opens |-> FALSE, raises |-> FALSE, anchors |-> <<>>]

DetailPage(url) ==
    CASE Canonical(url) = UrlA ->
           [ok |-> TRUE, h1 |-> <<LongTxt>>, els |-> << <<HaceHora(2)>> >>]
      [] Canonical(url) = UrlB ->
           [ok |-> TRUE, h1 |-> <<Txt>>, els |-> << <<HaceHora(30)>> >>]
      [] OTHER -> [ok |-> FALSE, h1 |-> <<>>, els |-> <<>>]

(***************************************************************************)
(* Spec: main / run_once, run up to MaxRuns times on the same cache file.  *)
(* hist holds the record of the run in progress, after that of the run     *)
(* before it.                                                              *)
(***************************************************************************)
\* file is the cache file as run_once found it (set when load_seen reads it)
NewRun(n) == [n |-> n, file |-> [kind |-> "unread", urls |-> {}],
              loaded |-> {}, browser |-> FALSE, navs |-> 0, visits |-> <<>>,
              sent |-> <<>>, rejected |-> {}, reached_save |-> FALSE,
              outcome |-> "running"]

Cur == hist[Len(hist)]
Record(r) == [hist EXCEPT ![Len(hist)] = r]

SearchPool == {[label |-> "Busqueda", url |-> u] :
                 u \in {<<>>, SearchVenta, SearchAlquiler, SearchCaida, SearchRota}}
CachePool  == {[kind |-> "missing", urls |-> {}], [kind |-> "corrupt", urls |-> {UrlA}],
               [kind |-> "list", urls |-> {UrlA}], [kind |-> "dict", urls |-> {UrlA}]}

Init ==
    /\ CFG \in [searches : SeqsUpTo(SearchPool, MaxSearches),
                top_n_per_search : 0..MaxTopN,
                max_age_hours : {24}]
    /\ creds \in BOOLEAN
    /\ cache_file \in CachePool
    /\ seen = {}
    /\ pc = "main"
    /\ si = 0
    /\ msg = <<>>
    /\ hist = <<NewRun(1)>>
    /\ ExtractIdle /\ FechaIdle

\* lines 260-263: nothing configured, run_once returns at once
RunNoSearches ==
    /\ pc = "main"
    /\ CFG.searches = <<>>
    /\ pc' = "exit0"
    /\ hist' = Record([Cur EXCEPT !.outcome = "no_searches"])
    /\ UNCHANGED <<extractVars, fechaVars, CFG, creds, cache_file, seen, si, msg>>

\* lines 265-275: load the cache, launch the browser
RunStart ==
    /\ pc = "main"
    /\ CFG.searches # <<>>
    /\ seen' = load_seen(cache_file)
    /\ si' = 1
    /\ pc' = "loop"
    /\ hist' = Record([Cur EXCEPT !.file = cache_file,
                                   !.loaded = load_seen(cache_file), !.browser = TRUE])
    /\ UNCHANGED <<extractVars, fechaVars, CFG, creds, cache_file, msg>>

\* lines 280-282: a search without url is skipped
SkipNoUrl ==
    /\ pc = "loop" /\ si <= Len(CFG.searches)
    /\ CFG.searches[si].url = <<>>
    /\ si' = si + 1
    /\ UNCHANGED <<extractVars, fechaVars, CFG, creds, cache_file, seen, pc, msg, hist>>

\* lines 285-289: page.goto raises, the search is skipped
OpenFail ==
    /\ pc = "loop" /\ si <= Len(CFG.searches)
    /\ CFG.searches[si].url # <<>>
    /\ ~ResultsPage(CFG.searches[si].url).opens
    /\ si' = si + 1
    /\ hist' = Record([Cur EXCEPT !.navs = @ + 1])
    /\ UNCHANGED <<extractVars, fechaVars, CFG, creds, cache_file, seen, pc, msg>>

\* lines 285-286: page.goto succeeds
OpenOk ==
    /\ pc = "loop" /\ si <= Len(CFG.searches)
    /\ CFG.searches[si].url # <<>>
    /\ ResultsPage(CFG.searches[si].url).opens
    /\ pc' = "extract"
    /\ hist' = Record([Cur EXCEPT !.navs = @ + 1])
    /\ UNCHANGED <<extractVars, fechaVars, CFG, creds, cache_file, seen, si, msg>>

\* line 291: a Playwright call inside extract_cards_from_search raises; nothing
\* in run_once catches it, main prints [fatal] and exits 1
ExtractRaises ==
    /\ pc = "extract"
    /\ ResultsPage(CFG.searches[si].url).raises
    /\ pc' = "fatal"
    /\ hist' = Record([Cur EXCEPT !.outcome = "fatal"])
    /\ UNCHANGED <<extractVars, fechaVars, CFG, creds, cache_file, seen, si, msg>>

\* line 291: the cards of the search
ExtractOk ==
    /\ pc = "extract"
    /\ ~ResultsPage(CFG.searches[si].url).raises
    /\ cards' = extract_cards_from_search(CFG.searches[si].url,
                     ResultsPage(CFG.searches[si].url).anchors, CFG.top_n_per_search)
    /\ pc' = "enrich"
    /\ UNCHANGED <<page_url, anchors, top_n, fechaVars,
                   CFG, creds, cache_file, seen, si, msg, hist>>

\* lines 295-329 up to the call of send_telegram
ProcessSearch ==
    /\ pc = "enrich"
    /\ LET candidatos   == Candidatos(cards, seen)
           enriquecidos == [i \in 1..Len(candidatos) |->
                               EnrichCard(candidatos[i], DetailPage(candidatos[i].url))]
           Pasa(it)     == pasa_filtro_fecha(it, CFG.max_age_hours)
           filtrados    == SelectSeq(enriquecidos, Pasa)
           rej          == {enriquecidos[i].url :
                               i \in {j \in 1..Len(enriquecidos) : ~Pasa(enriquecidos[j])}}
           h            == [Cur EXCEPT
                              !.visits = @ \o [i \in 1..Len(candidatos) |-> candidatos[i].url],
                              !.navs = @ + Len(candidatos),
                              !.rejected = @ \cup rej]
       IN /\ hist' = Record(h)
          /\ IF filtrados # <<>>
             THEN /\ seen' = MarkSeen(seen, filtrados)
                  /\ msg' = ComposeMsg(filtrados)
                  /\ pc' = "send"
                  /\ si' = si
             ELSE /\ pc' = "loop"
                  /\ si' = si + 1
                  /\ UNCHANGED <<seen, msg>>
    /\ UNCHANGED <<extractVars, fechaVars, CFG, creds, cache_file>>

\* line 326: send_telegram(msg); False without credentials, else what the
\* Telegram API answers
SendTelegram ==
    /\ pc = "send"
    /\ \E ok \in (IF creds THEN BOOLEAN ELSE {FALSE}) :
          /\ hist' = Record([Cur EXCEPT !.sent = Append(@, [si |-> si, lines |-> msg.lines,
                                                           whole |-> msg.whole, ok |-> ok])])
          /\ seen' = AfterSend(seen, msg, ok)
    /\ msg' = <<>>
    /\ si' = si + 1
    /\ pc' = "loop"
    /\ UNCHANGED <<extractVars, fechaVars, CFG, creds, cache_file>>

\* lines 331-332: the loop is over
LoopEnd ==
    /\ pc = "loop" /\ si > Len(CFG.searches)
    /\ pc' = "save"
    /\ hist' = Record([Cur EXCEPT !.reached_save = TRUE])
    /\ UNCHANGED <<extractVars, fechaVars, CFG, creds, cache_file, seen, si, msg>>

\* line 334: save_seen writes the file
SaveOk ==
    /\ pc = "save"
    /\ cache_file' = SavedFile(seen)
    /\ pc' = "exit0"
    /\ hist' = Record([Cur EXCEPT !.outcome = "saved"])
    /\ UNCHANGED <<extractVars, fechaVars, CFG, creds, seen, si, msg>>

\* lines 88-89: the write fails, the error is printed
SaveFails ==
    /\ pc = "save"
    /\ pc' = "exit0"
    /\ hist' = Record([Cur EXCEPT !.outcome = "save_failed"])
    /\ UNCHANGED <<extractVars, fechaVars, CFG, creds, cache_file, seen, si, msg>>

\* lines 340-341: KeyboardInterrupt while run_once is running
Interrupt ==
    /\ pc \in {"loop", "extract", "enrich", "send", "save"}
    /\ pc' = "cancelled"
    /\ hist' = Record([Cur EXCEPT !.outcome = "cancelled"])
    /\ UNCHANGED <<extractVars, fechaVars, CFG, creds, cache_file, seen, si, msg>>

\* the scheduler starts the process again, on the cache file as it is
NextRun ==
    /\ pc \in {"exit0", "fatal", "cancelled"}
    /\ Cur.n < MaxRuns
    /\ pc' = "main"
    /\ seen' = {}
    /\ si' = 0
    /\ msg' = <<>>
    /\ hist' = <<Cur, NewRun(Cur.n + 1)>>
    /\ UNCHANGED <<extractVars, fechaVars, CFG, creds, cache_file>>

Next ==
    \/ RunNoSearches \/ RunStart \/ SkipNoUrl \/ OpenFail \/ OpenOk
    \/ ExtractRaises \/ ExtractOk \/ ProcessSearch \/ SendTelegram
    \/ LoopEnd \/ SaveOk \/ SaveFails \/ Interrupt \/ NextRun

Spec == Init /\ [][Next]_vars

(***************************************************************************)
(* Properties of Spec.                                                     *)
(***************************************************************************)
Range(sq) == {sq[i] : i \in 1..Len(sq)}

\* the URLs listed in the messages of run r that send_telegram delivered / did not
DeliveredUrls(r) == UNION {Range(r.sent[k].lines) : k \in {j \in 1..Len(r.sent) : r.sent[j].ok}}
FailedUrls(r)    == UNION {Range(r.sent[k].lines) : k \in {j \in 1..Len(r.sent) : ~r.sent[j].ok}}

\* C1: when send_telegram returns False for a message, none of its URLs is
\* added to the seen set, and the file save_seen writes does not hold them.
C1_FailedNotMarked ==
    /\ (FailedUrls(Cur) \ DeliveredUrls(Cur)) \cap seen = {}
    /\ Cur.outcome = "saved" =>
          (FailedUrls(Cur) \ DeliveredUrls(Cur)) \cap cache_file.urls = {}

\* C2: when a run completed and saved the cache, the run right after it hands
\* nothing to send_telegram: no URL of a message of the first run is a candidate
\* again, and every candidate of the second run was rejected in the first and
\* is rejected again.
C2_SecondRunSilent ==
    \A r \in 1..(Len(hist) - 1) :
       hist[r].outcome = "saved" =>
          /\ hist[r + 1].sent = <<>>
          /\ Range(hist[r + 1].visits) \cap
                UNION {Range(hist[r].sent[k].lines) : k \in 1..Len(hist[r].sent)} = {}
          /\ Range(hist[r + 1].visits) \subseteq hist[r].rejected
          /\ Range(hist[r + 1].visits) \subseteq hist[r + 1].rejected

\* C2 witness: the first run sent a message and rejected a listing, saved, and
\* the second run visited the rejected listing again and ended without sending.
C2_Witness ==
    /\ Len(hist) = 2 /\ Cur.n = 2
    /\ hist[1].outcome = "saved" /\ hist[1].sent # <<>> /\ hist[1].rejected # {}
    /\ hist[2].outcome = "saved" /\ hist[2].visits # <<>> /\ hist[2].sent = <<>>

\* C3: a failure inside a search never leaves its iteration: the process goes
\* through every search and reaches save_seen, unless it is interrupted.
C3_FailuresAbsorbed ==
    (pc \in {"exit0", "fatal"} /\ CFG.searches # <<>>) =>
       (Cur.reached_save /\ si = Len(CFG.searches) + 1)

\* C4: after an interruption or an uncaught exception, the cache file holds
\* every URL of every message delivered before it.
C4_FlushedOnAbort ==
    pc \in {"cancelled", "fatal"} =>
       \A k \in 1..Len(Cur.sent) :
          Cur.sent[k].ok => Cur.sent[k].whole \subseteq load_seen(cache_file)

\* C10: without searches, or without BOT_TOKEN / CHAT_ID, the run stops before
\* browsing: no browser, no navigation, nothing added to the seen set.
C10_AbortBeforeBrowsing ==
    (CFG.searches = <<>> \/ ~creds) =>
       (~Cur.browser /\ Cur.navs = 0 /\ seen \subseteq Cur.loaded)

\* C11: a failed delivery never stops the run: once send_telegram has failed for
\* a search, the process still goes through every later search, reaches
\* save_seen and exits with success (unless it is interrupted).
C11_FailedSendNeverStops ==
    (pc \in {"exit0", "fatal"} /\ \E k \in 1..Len(Cur.sent) : ~Cur.sent[k].ok) =>
       (pc = "exit0" /\ Cur.reached_save /\ si = Len(CFG.searches) + 1)

(***************************************************************************)
(* Further properties of SpecFecha.                                        *)
(***************************************************************************)
\* the text pasa_filtro_fecha reads of the item
ItemLabel == item.age_label \o item.card_text

\* C12: enrich_detail_try returns a record with age_hours None when the
\* navigation or a DOM call fails, and an item without any date signal
\* (age_hours None, no timestamp and no relative-time text in its label and card
\* text) passes pasa_filtro_fecha under every max_age_hours.
C12_FailureIsIndeterminate ==
    /\ (pc \in {"f_enriched", "f_done"} /\ ~dom.ok) =>
          (item.age_hours = NoAge /\ item.age_label = <<>>)
    /\ (/\ pc \in {"f_done", "f_done_any"}
        /\ ~IsNumber(item.age_hours)
        /\ ~IsHoyOHoras(ItemLabel) /\ ~HasKind(ItemLabel, "iso"))
          => (admit[1] /\ admit[2])

\* C12 witness: the detail page failed after its date element was on the page,
\* the card text has no date phrase, and the item passes under max_age_hours = 0.
C12_Witness ==
    /\ pc = "f_done"
    /\ ~dom.ok /\ dom.els # <<>>
    /\ item.age_hours = NoAge
    /\ item.card_text = <<Txt>>
    /\ thresholds[1] = 0
    /\ admit[1]

\* C13: the relative-time text of a listing is classified today first, then
\* minutes, then hours: with no structured timestamp in the label, a label
\* holding "hoy" gives age 0, otherwise "hace N min" gives N minutes, otherwise
\* "hace N horas" gives N hours; a listing whose label says "Publicado hoy"
\* gets age_hours = 0 (not None) and is admitted with max_age_hours = 24.
C13_TodayMinutesHours ==
    LET label == DomLabel
        claimed == IF HasKind(label, "hoy") THEN Age(0)
                   ELSE IF HasKind(label, "min") THEN Age(FirstKind(label, "min").v)
                   ELSE IF HasKind(label, "hora")
                        THEN Age(60 * FirstKind(label, "hora").v)
                   ELSE NoAge
    IN (pc \in {"f_enriched", "f_done"} /\ dom.ok /\ ~HasKind(label, "iso")) =>
          /\ item.age_hours = claimed
          /\ (pc = "f_done" /\ HasKind(label, "hoy")) =>
                \A i \in 1..2 : thresholds[i] = 24 => admit[i]

(***************************************************************************)
(* Further properties of Spec.                                             *)
(***************************************************************************)
\* C14: when the seen file is missing or is not valid JSON, load_seen returns
\* the empty set and run_once goes on as on a first run: the browser is
\* launched and no URL counts as seen except those the run itself visited.
C14_EmptyOnMissingOrCorrupt ==
    (Cur.file.kind \in {"missing", "corrupt"}) =>
       (Cur.browser /\ Cur.loaded = {} /\ seen \subseteq Range(Cur.visits))

\* C14 witness: the file was corrupt (a cut-off list that still shows a URL),
\* the run sent a message holding that URL and reached save_seen.
C14_Witness ==
    /\ Cur.file = [kind |-> "corrupt", urls |-> {UrlA}]
    /\ pc = "save"
    /\ \E k \in 1..Len(Cur.sent) : UrlA \in Range(Cur.sent[k].lines)

\* C15: no seen entry is ever evicted: for a seen file that is a flat list of
\* URLs or a mapping of URL to timestamp, every URL recorded in the file before
\* the run is treated as seen during the run (not visited, in no message) and
\* is still recorded in the file once save_seen has written it.
C15_NoEviction ==
    (Cur.file.kind \in {"list", "dict"}) =>
       /\ Cur.file.urls \subseteq seen
       /\ Cur.file.urls \cap Range(Cur.visits) = {}
       /\ \A k \in 1..Len(Cur.sent) : Cur.file.urls \cap Range(Cur.sent[k].lines) = {}
       /\ Cur.outcome = "saved" => Cur.file.urls \subseteq cache_file.urls

\* C16: processing follows the document and the configuration order: the cards
\* of a search are the first top_n distinct matching hrefs of its results page
\* in document order, the lines of its message list the admitted candidates in
\* that same order, and the messages of a run are sent in the order of the
\* searches in the configuration.
C16_DocumentAndConfigOrder ==
    LET purl     == CFG.searches[si].url
        as       == ResultsPage(purl).anchors
        norm(i)  == NormalizeHref(as[i].href, purl)
        match(i) == /\ as[i].href # <<>>
                    /\ ~HasBlocked(norm(i))
                    /\ LooksLikeFicha(norm(i))
        firsts   == {i \in 1..Len(as) :
                       match(i) /\ \A j \in 1..(i - 1) : match(j) => norm(j) # norm(i)}
        n        == IF CFG.top_n_per_search < Cardinality(firsts)
                    THEN CFG.top_n_per_search ELSE Cardinality(firsts)
        nth(k)   == CHOOSE i \in firsts : Cardinality({j \in firsts : j < i}) = k - 1
    IN /\ pc \in {"enrich", "send"} =>
             /\ Len(cards) = n
             /\ \A k \in 1..n : cards[k].url = norm(nth(k))
       /\ pc = "send" =>
             \A a, b \in 1..Len(msg.lines) :
                a < b => \E i, j \in 1..Len(cards) :
                            i < j /\ cards[i].url = msg.lines[a] /\ cards[j].url = msg.lines[b]
       /\ \A a, b \in 1..Len(Cur.sent) : a < b => Cur.sent[a].si < Cur.sent[b].si

\* C17: a URL is added to the seen set during a run only if it is contained,
\* complete, in the text handed to send_telegram: cutting the message at 3800
\* characters leaves no URL marked as seen whose line was cut or dropped.
C17_SeenOnlyIfWholeInText ==
    (Cur.browser /\ pc # "cancelled") =>
       (seen \ Cur.loaded) \subseteq
          (UNION {Cur.sent[k].whole : k \in 1..Len(Cur.sent)}
             \cup (IF pc = "send" THEN msg.whole ELSE {}))

\* the URLs listed in the messages composed so far in the current run
SentLines == UNION {Range(Cur.sent[k].lines) : k \in 1..Len(Cur.sent)}

\* C18: within a run a listing URL is in at most one message, even when two
\* searches return it: a URL marked seen for an earlier search is filtered out
\* of the candidates of every later search, so it is visited once, listed once
\* in its message and in no other message.
C18_AtMostOneMessage ==
    /\ \A a, b \in 1..Len(Cur.sent) :
          a # b => Range(Cur.sent[a].lines) \cap Range(Cur.sent[b].lines) = {}
    /\ \A k \in 1..Len(Cur.sent) :
          \A i, j \in 1..Len(Cur.sent[k].lines) :
             i # j => Cur.sent[k].lines[i] # Cur.sent[k].lines[j]
    /\ pc = "send" => Range(msg.lines) \cap SentLines = {}
    /\ \A u \in SentLines :
          Cardinality({i \in 1..Len(Cur.visits) : Cur.visits[i] = u}) = 1

\* C18 witness: the first search sent a message with a listing, the second
\* search returned that listing again together with a new one, and its message
\* holds only the new one.
C18_Witness ==
    /\ Len(Cur.sent) = 2
    /\ Cur.loaded = {}
    /\ UrlA \in Range(Cur.sent[1].lines)
    /\ CFG.searches[Cur.sent[2].si].url = SearchAlquiler
    /\ \E i \in 1..Len(ResultsPage(SearchAlquiler).anchors) :
          NormalizeHref(ResultsPage(SearchAlquiler).anchors[i].href, SearchAlquiler) = UrlA
    /\ UrlA \notin Range(Cur.sent[2].lines)
    /\ Cur.sent[2].lines # <<>>

\* C19: candidates that do not reach a message leave the seen set unchanged.
\* In the step that handles the cards of a search, no card whose URL is in seen
\* is passed to enrich_detail_try or put in the message, the only URLs added to
\* seen are those of the admitted candidates (the lines composed for the
\* message), a candidate rejected by pasa_filtro_fecha is not added, and nothing
\* is removed; at every moment of a run no rejected URL is in seen.
C19_RejectedAndSeenLeaveSeenUnchanged ==
    /\ [](Cur.rejected \cap seen = {})
    /\ [][pc = "enrich" =>
            LET now_  == hist'[Len(hist')]
                newv  == {now_.visits[i] : i \in (Len(Cur.visits) + 1)..Len(now_.visits)}
                lines == IF pc' = "send" THEN Range(msg'.lines) ELSE {}
            IN /\ newv \cap seen = {}
               /\ lines \cap seen = {}
               /\ lines \subseteq newv
               /\ seen' = seen \cup lines
               /\ (newv \ lines) \cap seen' = {}
               /\ (newv \ lines) \subseteq now_.rejected]_vars

\* C19 witness: the file held one listing, the search returned it together with
\* another one that is too old: only the second was visited, it was rejected,
\* no message was composed and seen is the loaded set.
C19_Witness ==
    /\ Cur.file = [kind |-> "list", urls |-> {UrlA}]
    /\ pc = "loop" /\ si = 2
    /\ CFG.searches[1].url = SearchVenta
    /\ Cur.visits = <<UrlB>>
    /\ Cur.rejected = {UrlB}
    /\ Cur.sent = <<>>
    /\ seen = {UrlA}

====
